---- MODULE Spec2Model ----
(***************************************************************************)
(* Playback-process orchestration of MPV_PLAYER (src/player.py):           *)
(*   MpvProcessManager  - lifecycle of the primary mpv process and the     *)
(*                        connection-per-call control channel,             *)
(*   MediaPlayerAPI     - the remote-control routes (Flask threads),       *)
(*   OverlayBanner      - the two overlay slots and their timers,          *)
(*   PlayerWindow       - the owning (Qt main) thread: overlay handlers    *)
(*                        and the interrupt-ad flow with its watcher.      *)
(***************************************************************************)
EXTENDS Integers, Sequences, FiniteSets, TLC

\* ------------------------------------------------------------------ bounds
MaxStarts == 2          \* primary processes spawned in one run
SeekArgs == {5, 30}     \* seconds of a seek request (30 is the default)
VolumeArgs == {0 - 1, 0, 100, 150}  \* volumes a remote caller may ask for

MaxAds == 2             \* interruption sessions started in one run
MaxQueue == 2           \* events waiting in the owning thread's event queue
MaxRequests == 2        \* overlay requests made by remote callers in one run
TickSeconds == 5        \* seconds that pass in one step of the clock

\* ------------------------------------------------------- program constants
QuitPolls == 15         \* for _ in range(15)
MsPerSecond == 1000     \* int(duration_s * 1000)
ImageDefaultDuration == 10  \* duration if duration is not None else 10
DefaultHeight == 96     \* bottom_overlay.setFixedHeight(96)
DefaultWidth == 240     \* right_overlay.setFixedWidth(240)
MinHeight == 40         \* height > 40
MinWidth == 80          \* width > 80
NoDuration == -1        \* payload.get("duration") is None
Inactive == -1          \* a QTimer that is not running

None == 0               \* self._process is None; also "no socket file"
Absent == "absent"      \* a key the JSON payload does not hold
Pids == 1..MaxStarts

VARIABLES
    process,      \* MpvProcessManager._process: None or the pid of a Popen
    proc,         \* OS view of each primary: unborn/starting/serving/killed/exited
    sockOwner,    \* /tmp/mpvsocket: None = no file, else the pid that bound it
    ownerPc,      \* where the owning thread is: idle or inside stop()
    sent_quit,    \* local of stop()
    polls,        \* iterations of the quit polling loop done so far
    stage,        \* what the running/last stop() has issued: quit, terminate, kill
    ipc,          \* the last call of _send_ipc_command and its outcome
    last,         \* the last manager/API operation that returned, and how
    resp,         \* the last remote-control request (its argument) and its answer
    slot,         \* the two OverlayBanner widgets: bottom_overlay, right_overlay
    shown,        \* per slot: the duration its last show asked for, and its age
    uiQueue,      \* events posted to the owning thread, oldest first
    lastEnq,      \* per slot: the request enqueued last that targets it
    budget,       \* overlay requests remote callers may still make
    ads,          \* OS view of each secondary (ad) process
    watcher,      \* where each session's _wait_and_resume thread is
    paused        \* mpv's pause property, in the process that listens

lifeVars == <<process, proc, sockOwner, ownerPc, sent_quit, polls, stage>>
obsVars == <<ipc, last, resp>>
bannerVars == <<slot, shown, uiQueue, lastEnq, budget, ads, watcher>>
overlayVars == <<slot, shown, uiQueue, lastEnq, budget, ads, watcher, paused>>
vars == <<process, proc, sockOwner, ownerPc, sent_quit, polls, stage, ipc, last, resp,
          slot, shown, uiQueue, lastEnq, budget, ads, watcher, paused>>

\* ---------------------------------------------------------------- commands
\* A ControlCommand ["set", "volume", 50] is kept as its words, its number
\* and its boolean ("none" when it has none), so that commands compare.
Cmd(words, num, flag) == [words |-> words, num |-> num, flag |-> flag]
CmdQuit == Cmd(<<"quit">>, 0, "none")
CmdCyclePause == Cmd(<<"cycle", "pause">>, 0, "none")
CmdNext == Cmd(<<"playlist_next">>, 0, "none")
CmdPrev == Cmd(<<"playlist_prev">>, 0, "none")
CmdSeek(n) == Cmd(<<"seek">>, n, "none")
CmdVolume(v) == Cmd(<<"set", "volume">>, v, "none")
CmdSetPause(b) == Cmd(<<"set", "pause">>, 0, IF b THEN "true" ELSE "false")
CmdNone == Cmd(<<>>, 0, "none")

\* --------------------------------------------------------- control channel
\* What the socket calls of one send do when a listener is there.
IoOutcomes == {"ok", "connect_error", "write_error"}

\* os.path.exists(self._ipc_path)
SocketExists == sockOwner # None

\* The listening socket behind the file is open: the process that bound it
\* has not exited (a process with SIGKILL pending still holds it open).
ListenerOpen == sockOwner # None /\ proc[sockOwner] \in {"serving", "killed"}

\* A send that skips the os.path.exists test and goes straight to connect.
send_ipc_command_no_exists_test(command, io) ==
    LET real == IF ListenerOpen THEN io ELSE "connect_error"
    IN  [exists |-> SocketExists, tried |-> TRUE, written |-> real = "ok",
         ret |-> real = "ok", raised |-> FALSE]

\* One call of _send_ipc_command(command): `io` is what connect/sendall do.
\* exists = the path was there; tried = a connection was attempted;
\* written = sendall completed; ret = the value returned; raised = an
\* exception left the method.
send_ipc_command(command, io) ==
    IF ~SocketExists
    THEN [exists |-> FALSE, tried |-> FALSE, written |-> FALSE,
          ret |-> FALSE, raised |-> FALSE]
    ELSE LET real == IF ListenerOpen THEN io ELSE "connect_error"
         IN  IF real = "ok"
             THEN [exists |-> TRUE, tried |-> TRUE, written |-> TRUE,
                   ret |-> TRUE, raised |-> FALSE]
             ELSE \* except Exception: return False
                  [exists |-> TRUE, tried |-> TRUE, written |-> FALSE,
                   ret |-> FALSE, raised |-> FALSE]

\* A seek_backward that hands the channel the seconds as they came.
seek_backward_unnegated(seconds) == CmdSeek(seconds)

\* A play_pause that asks for the paused state instead of toggling.
play_pause_sets_pause == CmdSetPause(TRUE)

\* The command each control operation of the manager hands to the channel.
play_pause == CmdCyclePause
next_video == CmdNext
previous_video == CmdPrev
seek_forward(seconds) == CmdSeek(seconds)
seek_backward(seconds) == CmdSeek(0 - seconds)
set_volume(volume) == CmdVolume(volume)
pause == CmdSetPause(TRUE)
resume == CmdSetPause(FALSE)
send_ipc_quit == CmdQuit

\* The record left in `ipc` by one send made by manager method `op`.
IpcCall(op, command, io) ==
    [op |-> op, cmd |-> command,
     out |-> send_ipc_command(command, io)]

\* What mpv makes of a command it has read: cycle pause toggles the pause
\* property, set pause sets it, no other command of the manager touches it.
mpv_command(was, command) ==
    IF command.words = <<"cycle", "pause">> THEN ~was
    ELSE IF command.words = <<"set", "pause">> THEN command.flag = "true"
    ELSE was

\* The pause property after one send: mpv reads a command that was written.
AfterSend(was, call) == IF call.out.written THEN mpv_command(was, call.cmd) ELSE was

\* A control operation called from a remote route: one send, and the
\* route's JSON answer carries the send's boolean.
Route(action, op, command, arg) ==
    \E io \in IoOutcomes :
        /\ ipc' = IpcCall(op, command, io)
        /\ resp' = [action |-> action, success |-> ipc'.out.ret, status |-> 200,
                    arg |-> arg, file |-> Absent]
        /\ paused' = AfterSend(paused, ipc')
        /\ UNCHANGED <<lifeVars, last, bannerVars>>

ApiPlay == Route("play", "play_pause", play_pause, 0)
ApiPause == Route("pause", "play_pause", play_pause, 0)
ApiNext == Route("next", "next_video", next_video, 0)
ApiPrevious == Route("previous", "previous_video", previous_video, 0)
ApiSeekForward ==
    \E s \in SeekArgs : Route("seek_forward", "seek_forward", seek_forward(s), s)
ApiSeekBackward ==
    \E s \in SeekArgs : Route("seek_backward", "seek_backward", seek_backward(s), s)

\* A range test that forgets the upper limit.
VolumeRejected_no_upper(volume) == volume < 0

\* if not isinstance(volume, int) or volume < 0 or volume > 100: 400
VolumeRejected(volume) == volume < 0 \/ volume > 100

ApiVolume ==
    \E volume \in VolumeArgs :
        IF VolumeRejected(volume)
        THEN /\ resp' = [action |-> "set_volume", success |-> FALSE, status |-> 400,
                         arg |-> volume, file |-> Absent]
             /\ UNCHANGED <<lifeVars, ipc, last, overlayVars>>
        ELSE Route("set_volume", "set_volume", set_volume(volume), volume)

\* pause() and resume() have no route of their own: they are called by the
\* interruption flow, which drops the boolean they return.  One send each.
Pause ==
    \E io \in IoOutcomes :
        /\ ipc' = IpcCall("pause", pause, io)
        /\ paused' = AfterSend(paused, ipc')
        /\ UNCHANGED <<lifeVars, last, resp, bannerVars>>
Resume ==
    \E io \in IoOutcomes :
        /\ ipc' = IpcCall("resume", resume, io)
        /\ paused' = AfterSend(paused, ipc')
        /\ UNCHANGED <<lifeVars, last, resp, bannerVars>>

\* ------------------------------------------------------- lifecycle manager
Spawned == {p \in Pids : proc[p] # "unborn"}
Running(p) == p # None /\ proc[p] \in {"starting", "serving", "killed"}

\* _cleanup_ipc_socket: the file is gone afterwards.
cleanup_ipc_socket == None

\* A start() that removes the socket file before it tests its inputs.
Start_cleanup_first ==
    /\ ownerPc = "idle"
    /\ \E mpvFound \in BOOLEAN, isDir \in BOOLEAN :
        IF ~mpvFound
        THEN /\ last' = [op |-> "start", raised |-> TRUE, why |-> "DependencyMissing"]
             /\ sockOwner' = cleanup_ipc_socket
             /\ UNCHANGED <<process, proc, ownerPc, sent_quit, polls, stage, ipc, resp,
                            overlayVars>>
        ELSE IF ~isDir
        THEN /\ last' = [op |-> "start", raised |-> TRUE, why |-> "InvalidInput"]
             /\ sockOwner' = cleanup_ipc_socket
             /\ UNCHANGED <<process, proc, ownerPc, sent_quit, polls, stage, ipc, resp,
                            overlayVars>>
        ELSE /\ Spawned # Pids
             /\ LET p == CHOOSE q \in Pids \ Spawned : \A r \in Pids \ Spawned : q <= r
                IN  /\ sockOwner' = cleanup_ipc_socket
                    /\ process' = p
                    /\ proc' = [proc EXCEPT ![p] = "starting"]
             /\ last' = [op |-> "start", raised |-> FALSE, why |-> "started"]
             /\ UNCHANGED <<ownerPc, sent_quit, polls, stage, ipc, resp, overlayVars>>

\* start(wid, media_dir): which("mpv") and isdir(media_dir) are the inputs.
Start ==
    /\ ownerPc = "idle"
    /\ \E mpvFound \in BOOLEAN, isDir \in BOOLEAN :
        IF ~mpvFound
        THEN /\ last' = [op |-> "start", raised |-> TRUE, why |-> "DependencyMissing"]
             /\ UNCHANGED <<lifeVars, ipc, resp, overlayVars>>
        ELSE IF ~isDir
        THEN /\ last' = [op |-> "start", raised |-> TRUE, why |-> "InvalidInput"]
             /\ UNCHANGED <<lifeVars, ipc, resp, overlayVars>>
        ELSE /\ Spawned # Pids
             /\ LET p == CHOOSE q \in Pids \ Spawned : \A r \in Pids \ Spawned : q <= r
                IN  /\ sockOwner' = cleanup_ipc_socket
                    /\ process' = p
                    /\ proc' = [proc EXCEPT ![p] = "starting"]
             /\ last' = [op |-> "start", raised |-> FALSE, why |-> "started"]
             /\ UNCHANGED <<ownerPc, sent_quit, polls, stage, ipc, resp, overlayVars>>

\* stop() without its early return: the quit command is sent with no handle.
StopBegin_no_guard ==
    /\ ownerPc = "idle"
    /\ \E io \in IoOutcomes :
        /\ ipc' = IpcCall("stop", send_ipc_quit, io)
        /\ sent_quit' = ipc'.out.ret
        /\ stage' = <<"quit">>
        /\ polls' = 0
        /\ ownerPc' = IF ipc'.out.ret THEN "stop_poll" ELSE "stop_check"
        /\ UNCHANGED <<process, proc, sockOwner, last, resp, overlayVars>>

\* stop(), entry: the early return, else the quit command.
StopBegin ==
    /\ ownerPc = "idle"
    /\ IF process = None
       THEN /\ last' = [op |-> "stop", raised |-> FALSE, why |-> "noop"]
            /\ UNCHANGED <<lifeVars, ipc, resp, overlayVars>>
       ELSE \E io \in IoOutcomes :
            /\ ipc' = IpcCall("stop", send_ipc_quit, io)
            /\ sent_quit' = ipc'.out.ret
            /\ stage' = <<"quit">>
            /\ polls' = 0
            /\ ownerPc' = IF ipc'.out.ret THEN "stop_poll" ELSE "stop_check"
            /\ UNCHANGED <<process, proc, sockOwner, last, resp, overlayVars>>

\* A polling loop with no iteration limit: while poll() is None: sleep(0.1)
StopPoll_unbounded ==
    /\ ownerPc = "stop_poll"
    /\ IF proc[process] = "exited"
       THEN ownerPc' = "stop_check"
       ELSE ownerPc' = "stop_poll"
    /\ UNCHANGED <<process, proc, sockOwner, sent_quit, polls, stage, obsVars, overlayVars>>

\* A polling loop that makes one iteration too few: range(14).
StopPoll_one_short ==
    /\ ownerPc = "stop_poll"
    /\ IF proc[process] = "exited"
       THEN /\ ownerPc' = "stop_check"
            /\ UNCHANGED polls
       ELSE /\ polls' = polls + 1
            /\ ownerPc' = IF polls + 1 >= QuitPolls - 1 THEN "stop_check" ELSE "stop_poll"
    /\ UNCHANGED <<process, proc, sockOwner, sent_quit, stage, obsVars, overlayVars>>

\* for _ in range(15): poll(); break if exited; sleep(0.1)
StopPoll ==
    /\ ownerPc = "stop_poll"
    /\ IF proc[process] = "exited"
       THEN /\ ownerPc' = "stop_check"
            /\ UNCHANGED polls
       ELSE /\ polls' = polls + 1
            /\ ownerPc' = IF polls + 1 = QuitPolls THEN "stop_check" ELSE "stop_poll"
    /\ UNCHANGED <<process, proc, sockOwner, sent_quit, stage, obsVars, overlayVars>>

\* A stop() that requests termination without looking whether the process
\* has exited.
StopCheck_always_terminates ==
    /\ ownerPc = "stop_check"
    /\ stage' = Append(stage, "terminate")
    /\ ownerPc' = "stop_wait"
    /\ UNCHANGED <<process, proc, sockOwner, sent_quit, polls, obsVars, overlayVars>>

\* if self._process.poll() is None: terminate()
StopCheck ==
    /\ ownerPc = "stop_check"
    /\ IF proc[process] = "exited"
       THEN /\ ownerPc' = "stop_final"
            /\ UNCHANGED stage
       ELSE /\ stage' = Append(stage, "terminate")
            /\ ownerPc' = "stop_wait"
    /\ UNCHANGED <<process, proc, sockOwner, sent_quit, polls, obsVars, overlayVars>>

\* wait(timeout=2); except TimeoutExpired: kill().  kill() sends SIGKILL and
\* returns: the process is gone only once the kernel has delivered it.
StopWait ==
    /\ ownerPc = "stop_wait"
    /\ IF proc[process] = "exited"
       THEN UNCHANGED <<proc, stage>>
       ELSE /\ proc' = [proc EXCEPT ![process] = "killed"]
            /\ stage' = Append(stage, "kill")
    /\ ownerPc' = "stop_final"
    /\ UNCHANGED <<process, sockOwner, sent_quit, polls, obsVars, overlayVars>>

\* finally: self._process = None; self._cleanup_ipc_socket()
StopFinal ==
    /\ ownerPc = "stop_final"
    /\ process' = None
    /\ sockOwner' = cleanup_ipc_socket
    /\ ownerPc' = "idle"
    /\ sent_quit' = FALSE
    /\ polls' = 0
    /\ last' = [op |-> "stop", raised |-> FALSE, why |-> "stopped"]
    /\ UNCHANGED <<proc, stage, ipc, resp, overlayVars>>

\* ------------------------------------------------- the external mpv process
\* --input-ipc-server: mpv binds the control socket some time after launch,
\* replacing whatever file is at the path.  It was launched playing.
ProcBind ==
    \E p \in Pids :
        /\ proc[p] = "starting"
        /\ proc' = [proc EXCEPT ![p] = "serving"]
        /\ sockOwner' = p
        /\ paused' = FALSE
        /\ UNCHANGED <<process, ownerPc, sent_quit, polls, stage, obsVars, bannerVars>>

\* The process ends: on quit, on SIGTERM, on SIGKILL, or at the end of the
\* playlist (--idle=no).  Its socket file may be left behind.
ProcExit ==
    \E p \in Pids, unlink \in BOOLEAN :
        /\ Running(p)
        /\ proc' = [proc EXCEPT ![p] = "exited"]
        /\ sockOwner' = IF unlink /\ sockOwner = p /\ proc[p] # "killed" THEN None ELSE sockOwner
        /\ UNCHANGED <<process, ownerPc, sent_quit, polls, stage, obsVars, overlayVars>>

\* ------------------------------------------------------------ overlay slots
Slots == {"bottom", "side"}
Positions == {Absent, "bottom", "side", "top"}
Kinds == {"text", "image"}
Durations == {NoDuration, 0, 10}         \* seconds; NoDuration = key absent
Paths == {"x.png", "bad.png"}            \* bad.png: QPixmap(path).isNull()
Texts == {"news"}
NoDim == 0                               \* payload.get("width") is None
Dims == {NoDim, 120}                     \* width and height of a show payload
AdFiles == {Absent, "", "missing.mp4", "ad.mp4"}
ExistingFiles == {"ad.mp4"}              \* os.path.exists(ad_file)
BridgeHasParent == FALSE                 \* self.bridge = UiBridge(): no parent

\* OverlayBanner.__init__: hidden, text view first in the stack, timers idle.
NewBanner(size) ==
    [visible |-> FALSE, kind |-> "text", text |-> "", image |-> "none",
     marquee |-> FALSE, hideMs |-> Inactive, size |-> size]

\* A timer started with the seconds taken for milliseconds.
set_autohide_unscaled(duration_s) ==
    IF duration_s # NoDuration /\ duration_s > 0
    THEN duration_s
    ELSE Inactive

\* _set_autohide(duration_s): stop(), then start(int(duration_s * 1000))
set_autohide(duration_s) ==
    IF duration_s # NoDuration /\ duration_s > 0
    THEN duration_s * MsPerSecond
    ELSE Inactive

\* A show_text that leaves a running auto-hide timer alone when it is given
\* no duration of its own.
show_text_keeps_timer(b, text, scroll, duration_s) ==
    [b EXCEPT !.kind = "text", !.text = text, !.marquee = scroll,
              !.hideMs = IF duration_s # NoDuration /\ duration_s > 0
                         THEN duration_s * MsPerSecond ELSE b.hideMs,
              !.visible = TRUE]

\* show_text(text, scroll, duration_s)
show_text(b, text, scroll, duration_s) ==
    [b EXCEPT !.kind = "text", !.text = text, !.marquee = scroll,
              !.hideMs = set_autohide(duration_s), !.visible = TRUE]

\* show_image(path, duration_s): a pixmap that does not load leaves the
\* label's previous picture in place.
show_image(b, path, duration_s) ==
    [b EXCEPT !.image = IF path = "bad.png" THEN b.image ELSE path,
              !.kind = "image", !.marquee = FALSE,
              !.hideMs = set_autohide(duration_s), !.visible = TRUE]

\* QWidget.hide(): neither timer is stopped.
hide(b) == [b EXCEPT !.visible = FALSE]

\* payload.get("position", "bottom")
PositionOf(position) == IF position = Absent THEN "bottom" ELSE position

\* A target choice that sends only position "side" to the side banner.
Target_side_by_name(position) == IF position = "side" THEN "side" ELSE "bottom"

\* target = self.bottom_overlay if position == "bottom" else self.right_overlay
Target(position) == IF PositionOf(position) = "bottom" THEN "bottom" ELSE "side"

\* An image handler that passes the payload's duration on as it is.
ImageDuration_no_default(duration) == duration

\* duration if duration is not None else 10
ImageDuration(duration) == IF duration # NoDuration THEN duration ELSE ImageDefaultDuration

\* The duration handed to the banner by _on_show_overlay.
BannerDuration(kind, duration) == IF kind = "text" THEN duration ELSE ImageDuration(duration)

\* setFixedHeight / setFixedWidth of _on_show_overlay
Resized(sl, position, dim) ==
    [t \in Slots |->
        IF t = "bottom" /\ PositionOf(position) = "bottom" /\ dim # NoDim /\ dim > MinHeight
        THEN [sl[t] EXCEPT !.size = dim]
        ELSE IF t = "side" /\ PositionOf(position) = "side" /\ dim # NoDim /\ dim > MinWidth
        THEN [sl[t] EXCEPT !.size = dim]
        ELSE sl[t]]

\* _on_show_overlay(payload)
on_show_overlay(sl, position, kind, duration, content, scroll, dim) ==
    LET sized == Resized(sl, position, dim)
        t == Target(position)
    IN  [sized EXCEPT ![t] =
            IF kind = "text"
            THEN show_text(sized[t], content, scroll, duration)
            ELSE show_image(sized[t], content, ImageDuration(duration))]

\* An _on_hide_overlay that hides both banners whatever position it is given.
on_hide_overlay_both(sl, position) == [t \in Slots |-> hide(sl[t])]

\* _on_hide_overlay(position)
on_hide_overlay(sl, position) ==
    [t \in Slots |->
        IF position = Absent \/ position = t THEN hide(sl[t]) ELSE sl[t]]

\* The slots a request is about.
ShowTargets(position) == {Target(position)}
HideTargets(position) == IF position = Absent THEN Slots ELSE {position} \cap Slots

\* Events of the owning thread's queue.
ShowEvent(position, kind, duration) ==
    [op |-> "show", position |-> position, kind |-> kind, duration |-> duration]
HideEvent(position) ==
    [op |-> "hide", position |-> position, kind |-> "none", duration |-> NoDuration]
AdEvent(file) ==
    [op |-> "ad", position |-> Absent, kind |-> "none", duration |-> NoDuration,
     file |-> file]
NoEvent == [op |-> "none", position |-> Absent, kind |-> "none", duration |-> NoDuration]

\* A queued connection / posted event: appended behind what is waiting.
Enqueue(q, e) == Append(q, e)

\* An event loop that takes the newest event first.
TakeEvent_newest(q) == [event |-> q[Len(q)], rest |-> SubSeq(q, 1, Len(q) - 1)]

\* The event loop takes the oldest event.
TakeEvent(q) == [event |-> Head(q), rest |-> Tail(q)]
NextEvent(q) == TakeEvent(q).event
AfterEvent(q) == TakeEvent(q).rest

\* What is remembered of the show last applied to a slot: the duration the
\* request carried and the seconds its auto-hide timer has been running.
Fresh(duration) == [asked |-> duration, age |-> 0]
AgeCap == ImageDefaultDuration
Older(sh, running) ==
    IF ~running THEN sh
    ELSE [sh EXCEPT !.age = IF sh.age + TickSeconds > AgeCap THEN AgeCap
                             ELSE sh.age + TickSeconds]

Noted(le, targets, e) == [t \in Slots |-> IF t \in targets THEN e ELSE le[t]]

overlayFrame == <<process, proc, sockOwner, sent_quit, polls, stage, last, paused>>

\* POST /show-overlay: showOverlayRequested.emit(data), answered at once.
\* The payload's content, scroll, width and height ride along unread until
\* the handler runs and are drawn there.
ApiShowOverlay ==
    \E position \in Positions, kind \in Kinds, duration \in Durations :
        /\ budget > 0
        /\ Len(uiQueue) < MaxQueue
        /\ budget' = budget - 1
        /\ uiQueue' = Enqueue(uiQueue, ShowEvent(position, kind, duration))
        /\ lastEnq' = Noted(lastEnq, ShowTargets(position), ShowEvent(position, kind, duration))
        /\ resp' = [action |-> "show_overlay", success |-> TRUE, status |-> 200, arg |-> 0, file |-> Absent]
        /\ UNCHANGED <<overlayFrame, ownerPc, ipc, slot, shown, ads, watcher>>

\* POST /hide-overlay: hideOverlayRequested.emit(position)
ApiHideOverlay ==
    \E position \in Positions :
        /\ budget > 0
        /\ Len(uiQueue) < MaxQueue
        /\ budget' = budget - 1
        /\ uiQueue' = Enqueue(uiQueue, HideEvent(position))
        /\ lastEnq' = Noted(lastEnq, HideTargets(position), HideEvent(position))
        /\ resp' = [action |-> "hide_overlay", success |-> TRUE, status |-> 200, arg |-> 0, file |-> Absent]
        /\ UNCHANGED <<overlayFrame, ownerPc, ipc, slot, shown, ads, watcher>>

\* QTimer.singleShot(0, <lambda>) called on a thread that is not the owning
\* thread and runs no Qt event loop: the call is either carried over to the
\* owning thread's queue or never runs.
SingleShotFromOtherThread(q, e) == {Enqueue(q, e), q}

\* A file test that only looks whether a file was named.
AdFileRejected_no_exists(file) == file = Absent \/ file = ""

\* if not ad_file or not os.path.exists(ad_file): 400
AdFileRejected(file) == file = Absent \/ file = "" \/ file \notin ExistingFiles

\* POST /play-interrupt-ad.  invokeMethod(bridge, "objectName", Queued) names
\* a method the meta-object may not offer: `invoked` is whether the binding
\* lets the call pass or raises, which ends the request with a 500.
ApiPlayInterruptAd ==
    \E file \in AdFiles, invoked \in BOOLEAN :
        IF AdFileRejected(file)
        THEN /\ resp' = [action |-> "play_interrupt_ad", success |-> FALSE,
                         status |-> 400, arg |-> 0, file |-> file]
             /\ UNCHANGED <<overlayFrame, ownerPc, ipc, overlayVars>>
        ELSE IF ~invoked
        THEN /\ resp' = [action |-> "play_interrupt_ad", success |-> FALSE,
                         status |-> 500, arg |-> 0, file |-> file]
             /\ UNCHANGED <<overlayFrame, ownerPc, ipc, overlayVars>>
        ELSE /\ Len(uiQueue) < MaxQueue
             /\ uiQueue' \in SingleShotFromOtherThread(uiQueue, AdEvent(file))
             /\ resp' = [action |-> "play_interrupt_ad", success |-> TRUE,
                         status |-> 200, arg |-> 0, file |-> file]
             /\ UNCHANGED <<overlayFrame, ownerPc, ipc, slot, shown, lastEnq, budget,
                            ads, watcher>>

\* The owning thread runs _on_show_overlay for the oldest event.
ApplyShow ==
    /\ ownerPc = "idle"
    /\ uiQueue # <<>>
    /\ NextEvent(uiQueue).op = "show"
    /\ LET e == NextEvent(uiQueue)
       IN  \E scroll \in BOOLEAN, dim \in Dims,
              content \in (IF e.kind = "text" THEN Texts ELSE Paths) :
            /\ slot' = on_show_overlay(slot, e.position, e.kind, e.duration,
                                       content, scroll, dim)
            /\ shown' = [shown EXCEPT ![Target(e.position)] = Fresh(e.duration)]
    /\ uiQueue' = AfterEvent(uiQueue)
    /\ UNCHANGED <<overlayFrame, ownerPc, ipc, resp, lastEnq, budget, ads, watcher>>

\* The owning thread runs _on_hide_overlay for the oldest event.
ApplyHide ==
    /\ ownerPc = "idle"
    /\ uiQueue # <<>>
    /\ NextEvent(uiQueue).op = "hide"
    /\ slot' = on_hide_overlay(slot, NextEvent(uiQueue).position)
    /\ uiQueue' = AfterEvent(uiQueue)
    /\ UNCHANGED <<overlayFrame, ownerPc, ipc, resp, shown, lastEnq, budget, ads, watcher>>

\* _autohide_timer.timeout -> hide: a single-shot timer that has run out
\* fires once the owning thread is back in its event loop.
AutoHide ==
    \E t \in Slots :
        /\ ownerPc = "idle"
        /\ slot[t].hideMs = 0
        /\ slot' = [slot EXCEPT ![t] = [hide(slot[t]) EXCEPT !.hideMs = Inactive]]
        /\ UNCHANGED <<overlayFrame, ownerPc, ipc, resp, shown, uiQueue, lastEnq, budget,
                       ads, watcher>>

\* TickSeconds pass: running timers come closer to their timeout.
Less(n, by) == IF n <= 0 THEN n ELSE IF n <= by THEN 0 ELSE n - by
Tick ==
    /\ \E t \in Slots : slot[t].hideMs > 0
    /\ slot' = [t \in Slots |->
                  [slot[t] EXCEPT !.hideMs = Less(slot[t].hideMs, TickSeconds * MsPerSecond)]]
    /\ shown' = [t \in Slots |-> Older(shown[t], slot[t].hideMs > 0)]
    /\ UNCHANGED <<overlayFrame, ownerPc, ipc, resp, uiQueue, lastEnq, budget, ads, watcher>>

\* -------------------------------------------------------- interrupt-ad flow
Sessions == 1..MaxAds
Started == {a \in Sessions : ads[a] # "unborn"}

\* play_interrupt_ad(ad_path), entry: self.mpv_manager.pause()
play_interrupt_ad(ad_path) ==
    /\ ownerPc = "idle"
    /\ Started # Sessions
    /\ \E io \in IoOutcomes : ipc' = IpcCall("pause", pause, io)
    /\ paused' = AfterSend(paused, ipc')
    /\ last' = [op |-> "play_interrupt_ad", raised |-> FALSE, why |-> ad_path]
    /\ ownerPc' = "ad_paused"
    /\ UNCHANGED <<process, proc, sockOwner, sent_quit, polls, stage, resp, slot, shown,
                   lastEnq, budget, ads, watcher>>

\* play_interrupt_ad, then: ad_proc = Popen(...) and the watcher thread is
\* started on it.
PlayInterruptAdSpawn ==
    /\ ownerPc = "ad_paused"
    /\ LET a == CHOOSE x \in Sessions \ Started : \A y \in Sessions \ Started : x <= y
       IN  /\ ads' = [ads EXCEPT ![a] = "running"]
           /\ watcher' = [watcher EXCEPT ![a] = "waiting"]
    /\ ownerPc' = "ad_started"
    /\ UNCHANGED <<overlayFrame, ipc, resp, slot, shown, uiQueue, lastEnq, budget>>

\* The owning thread calls play_interrupt_ad with a file that is there.
PlayInterruptAd ==
    \E file \in ExistingFiles :
        /\ play_interrupt_ad(file)
        /\ UNCHANGED uiQueue

\* The owning thread runs the lambda posted by POST /play-interrupt-ad:
\* self.bridge.parent().play_interrupt_ad(ad_file) if self.bridge.parent()
\* else None
ApplyAdLambda ==
    /\ ownerPc = "idle"
    /\ uiQueue # <<>>
    /\ NextEvent(uiQueue).op = "ad"
    /\ uiQueue' = AfterEvent(uiQueue)
    /\ IF BridgeHasParent
       THEN play_interrupt_ad(NextEvent(uiQueue).file)
       ELSE UNCHANGED <<overlayFrame, ownerPc, ipc, resp, slot, shown, lastEnq, budget,
                        ads, watcher>>

\* A play_interrupt_ad that waits for the ad process itself (ad_proc.wait()
\* on the calling thread) before it returns.
PlayInterruptAdReturn_waits ==
    /\ ownerPc = "ad_started"
    /\ \A a \in Sessions : ads[a] # "running"
    /\ ownerPc' = "idle"
    /\ UNCHANGED <<overlayFrame, ipc, resp, overlayVars>>

\* play_interrupt_ad returns to the event loop.
PlayInterruptAdReturn ==
    /\ ownerPc = "ad_started"
    /\ ownerPc' = "idle"
    /\ UNCHANGED <<overlayFrame, ipc, resp, overlayVars>>

\* The secondary mpv ends (or never does).
AdExit ==
    \E a \in Sessions :
        /\ ads[a] = "running"
        /\ ads' = [ads EXCEPT ![a] = "exited"]
        /\ UNCHANGED <<overlayFrame, ownerPc, ipc, resp, slot, shown, uiQueue, lastEnq,
                       budget, watcher>>

\* A watcher that hides the banners itself, on its own thread.
WatcherHide_direct ==
    \E a \in Sessions :
        /\ watcher[a] = "waiting"
        /\ ads[a] = "exited"
        /\ slot' = on_hide_overlay(slot, Absent)
        /\ watcher' = [watcher EXCEPT ![a] = "hide_requested"]
        /\ UNCHANGED <<overlayFrame, ownerPc, ipc, resp, shown, uiQueue, lastEnq, budget, ads>>

\* A watcher that does not wait for the ad process before it goes on.
WatcherHide_no_wait ==
    \E a \in Sessions :
        /\ watcher[a] = "waiting"
        /\ Len(uiQueue) < MaxQueue
        /\ uiQueue' \in SingleShotFromOtherThread(uiQueue, HideEvent(Absent))
        /\ lastEnq' = IF uiQueue' = uiQueue THEN lastEnq
                      ELSE Noted(lastEnq, Slots, HideEvent(Absent))
        /\ watcher' = [watcher EXCEPT ![a] = "hide_requested"]
        /\ UNCHANGED <<overlayFrame, ownerPc, ipc, resp, slot, shown, budget, ads>>

\* _wait_and_resume: ad_proc.wait() returns, then
\* QTimer.singleShot(0, lambda: self._on_hide_overlay(None))
WatcherHide ==
    \E a \in Sessions :
        /\ watcher[a] = "waiting"
        /\ ads[a] = "exited"
        /\ Len(uiQueue) < MaxQueue
        /\ uiQueue' \in SingleShotFromOtherThread(uiQueue, HideEvent(Absent))
        /\ lastEnq' = IF uiQueue' = uiQueue THEN lastEnq
                      ELSE Noted(lastEnq, Slots, HideEvent(Absent))
        /\ watcher' = [watcher EXCEPT ![a] = "hide_requested"]
        /\ UNCHANGED <<overlayFrame, ownerPc, ipc, resp, slot, shown, budget, ads>>

\* _wait_and_resume: self.mpv_manager.resume()
WatcherResume ==
    \E a \in Sessions :
        /\ watcher[a] = "hide_requested"
        /\ \E io \in IoOutcomes : ipc' = IpcCall("resume", resume, io)
        /\ watcher' = [watcher EXCEPT ![a] = "done"]
        /\ paused' = AfterSend(paused, ipc')
        /\ UNCHANGED <<process, proc, sockOwner, sent_quit, polls, stage, last, ownerPc, resp,
                       slot, shown, uiQueue, lastEnq, budget, ads>>

\* ------------------------------------------------------------ specification
Init ==
    /\ process = None
    /\ proc = [p \in Pids |-> "unborn"]
    /\ sockOwner \in {None}
    /\ ownerPc = "idle"
    /\ sent_quit = FALSE
    /\ polls = 0
    /\ stage = <<>>
    /\ ipc = [op |-> "none", cmd |-> CmdNone,
              out |-> [exists |-> FALSE, tried |-> FALSE, written |-> FALSE,
                       ret |-> FALSE, raised |-> FALSE]]
    /\ last = [op |-> "none", raised |-> FALSE, why |-> "none"]
    /\ resp = [action |-> "none", success |-> FALSE, status |-> 0, arg |-> 0, file |-> Absent]
    /\ slot = [t \in Slots |-> NewBanner(IF t = "bottom" THEN DefaultHeight ELSE DefaultWidth)]
    /\ shown = [t \in Slots |-> Fresh(NoDuration)]
    /\ uiQueue = <<>>
    /\ lastEnq = [t \in Slots |-> NoEvent]
    /\ budget = MaxRequests
    /\ ads = [a \in Sessions |-> "unborn"]
    /\ watcher = [a \in Sessions |-> "none"]
    /\ paused = FALSE

Next ==
    \/ Start \/ StopBegin \/ StopPoll \/ StopCheck \/ StopWait \/ StopFinal
    \/ ProcBind \/ ProcExit
    \/ ApiPlay \/ ApiPause \/ ApiNext \/ ApiPrevious
    \/ ApiSeekForward \/ ApiSeekBackward \/ ApiVolume

Spec == Init /\ [][Next]_vars

\* The overlay coordinator and the interruption flow, with the primary
\* process as start() left it: launched, its control socket bound or not yet.
InitOverlay ==
    /\ process = 1
    /\ \/ (proc = [p \in Pids |-> IF p = 1 THEN "serving" ELSE "unborn"] /\ sockOwner = 1)
       \/ (proc = [p \in Pids |-> IF p = 1 THEN "starting" ELSE "unborn"] /\ sockOwner = None)
    /\ ownerPc = "idle"
    /\ sent_quit = FALSE
    /\ polls = 0
    /\ stage = <<>>
    /\ ipc = [op |-> "none", cmd |-> CmdNone,
              out |-> [exists |-> FALSE, tried |-> FALSE, written |-> FALSE,
                       ret |-> FALSE, raised |-> FALSE]]
    /\ last = [op |-> "start", raised |-> FALSE, why |-> "started"]
    /\ resp = [action |-> "none", success |-> FALSE, status |-> 0, arg |-> 0, file |-> Absent]
    /\ slot = [t \in Slots |-> NewBanner(IF t = "bottom" THEN DefaultHeight ELSE DefaultWidth)]
    /\ shown = [t \in Slots |-> Fresh(NoDuration)]
    /\ uiQueue = <<>>
    /\ lastEnq = [t \in Slots |-> NoEvent]
    /\ budget = MaxRequests
    /\ ads = [a \in Sessions |-> "unborn"]
    /\ watcher = [a \in Sessions |-> "none"]
    /\ paused = FALSE

NextOverlay ==
    \/ ApiShowOverlay \/ ApiHideOverlay
    \/ ApplyShow \/ ApplyHide \/ AutoHide \/ Tick

OverlaySpec == InitOverlay /\ [][NextOverlay]_vars

\* The owning thread's event loop keeps running and time passes.
FairOverlaySpec ==
    /\ OverlaySpec
    /\ WF_vars(ApplyShow) /\ WF_vars(ApplyHide) /\ WF_vars(AutoHide) /\ WF_vars(Tick)

\* The control operations alone, against a primary process that binds its
\* socket and ends when it will.
NextControl ==
    \/ ApiPlay \/ ApiPause \/ ApiNext \/ ApiPrevious
    \/ ApiSeekForward \/ ApiSeekBackward \/ ApiVolume
    \/ Pause \/ Resume
    \/ ProcBind \/ ProcExit

ControlSpec == InitOverlay /\ [][NextControl]_vars

\* The interruption flow, entered with the slots as earlier show requests
\* left them: both hidden, the bottom ticker up, or ticker and side banner up.
Banners0 == [t \in Slots |-> NewBanner(IF t = "bottom" THEN DefaultHeight ELSE DefaultWidth)]
TickerUp == on_show_overlay(Banners0, Absent, "text", NoDuration, "news", TRUE, NoDim)
BothUp == on_show_overlay(TickerUp, "side", "image", 0, "x.png", FALSE, NoDim)

InitAd ==
    /\ process = 1
    /\ \/ (proc = [p \in Pids |-> IF p = 1 THEN "serving" ELSE "unborn"] /\ sockOwner = 1)
       \/ (proc = [p \in Pids |-> IF p = 1 THEN "starting" ELSE "unborn"] /\ sockOwner = None)
    /\ ownerPc = "idle"
    /\ sent_quit = FALSE
    /\ polls = 0
    /\ stage = <<>>
    /\ ipc = [op |-> "none", cmd |-> CmdNone,
              out |-> [exists |-> FALSE, tried |-> FALSE, written |-> FALSE,
                       ret |-> FALSE, raised |-> FALSE]]
    /\ last = [op |-> "start", raised |-> FALSE, why |-> "started"]
    /\ resp = [action |-> "none", success |-> FALSE, status |-> 0, arg |-> 0, file |-> Absent]
    /\ \/ (slot = Banners0 /\ lastEnq = [t \in Slots |-> NoEvent])
       \/ (/\ slot = TickerUp
           /\ lastEnq = [t \in Slots |-> IF t = "bottom"
                            THEN ShowEvent(Absent, "text", NoDuration) ELSE NoEvent])
       \/ (/\ slot = BothUp
           /\ lastEnq = [t \in Slots |-> IF t = "bottom"
                            THEN ShowEvent(Absent, "text", NoDuration)
                            ELSE ShowEvent("side", "image", 0)])
    /\ shown = [t \in Slots |-> Fresh(IF slot[t].kind = "image" THEN 0 ELSE NoDuration)]
    /\ uiQueue = <<>>
    /\ budget = 0
    /\ ads = [a \in Sessions |-> "unborn"]
    /\ watcher = [a \in Sessions |-> "none"]
    /\ paused = FALSE

\* The overlay coordinator entered with banners already up (the ticker, or
\* the ticker and the side banner), and the remote callers' requests to come.
InitUp ==
    /\ process = 1
    /\ \/ (proc = [p \in Pids |-> IF p = 1 THEN "serving" ELSE "unborn"] /\ sockOwner = 1)
       \/ (proc = [p \in Pids |-> IF p = 1 THEN "starting" ELSE "unborn"] /\ sockOwner = None)
    /\ ownerPc = "idle"
    /\ sent_quit = FALSE
    /\ polls = 0
    /\ stage = <<>>
    /\ ipc = [op |-> "none", cmd |-> CmdNone,
              out |-> [exists |-> FALSE, tried |-> FALSE, written |-> FALSE,
                       ret |-> FALSE, raised |-> FALSE]]
    /\ last = [op |-> "start", raised |-> FALSE, why |-> "started"]
    /\ resp = [action |-> "show_overlay", success |-> TRUE, status |-> 200, arg |-> 0,
               file |-> Absent]
    /\ \/ (/\ slot = TickerUp
           /\ lastEnq = [t \in Slots |-> IF t = "bottom"
                            THEN ShowEvent(Absent, "text", NoDuration) ELSE NoEvent])
       \/ (/\ slot = BothUp
           /\ lastEnq = [t \in Slots |-> IF t = "bottom"
                            THEN ShowEvent(Absent, "text", NoDuration)
                            ELSE ShowEvent("side", "image", 0)])
    /\ shown = [t \in Slots |-> Fresh(IF slot[t].kind = "image" THEN 0 ELSE NoDuration)]
    /\ uiQueue = <<>>
    /\ budget = MaxRequests
    /\ ads = [a \in Sessions |-> "unborn"]
    /\ watcher = [a \in Sessions |-> "none"]
    /\ paused = FALSE

UpSpec == InitUp /\ [][NextOverlay]_vars

NextAd ==
    \/ ApiPlayInterruptAd \/ ApplyAdLambda \/ PlayInterruptAd \/ PlayInterruptAdSpawn
    \/ PlayInterruptAdReturn
    \/ AdExit \/ WatcherHide \/ WatcherResume \/ ApplyHide

AdSpec == InitAd /\ [][NextAd]_vars

\* The window with its interruption flow and closeEvent, which runs stop().
NextWindow ==
    \/ ApiPlayInterruptAd \/ ApplyAdLambda \/ PlayInterruptAd \/ PlayInterruptAdSpawn
    \/ PlayInterruptAdReturn
    \/ AdExit \/ WatcherHide \/ WatcherResume \/ ApplyHide
    \/ StopBegin \/ StopPoll \/ StopCheck \/ StopWait \/ StopFinal
    \/ ProcBind \/ ProcExit

WindowSpec == InitAd /\ [][NextWindow]_vars

\* The owning thread runs on; nothing is assumed of the secondary process
\* or of the watcher threads.
FairAdSpec ==
    /\ AdSpec
    /\ WF_vars(PlayInterruptAdSpawn) /\ WF_vars(PlayInterruptAdReturn)
    /\ WF_vars(ApplyHide) /\ WF_vars(ApplyAdLambda)

\* The owning thread runs the code of stop() to its end: sleep() returns and
\* wait(timeout=2) returns or times out.  Nothing is assumed of the process.
FairSpec ==
    /\ Spec
    /\ WF_vars(StopPoll) /\ WF_vars(StopCheck) /\ WF_vars(StopWait) /\ WF_vars(StopFinal)

\* ------------------------------------------------------------------ claims
TypeOK ==
    /\ process \in {None} \cup Pids
    /\ proc \in [Pids -> {"unborn", "starting", "serving", "killed", "exited"}]
    /\ sockOwner \in {None} \cup Pids
    /\ ownerPc \in {"idle", "stop_poll", "stop_check", "stop_wait", "stop_final",
                     "ad_paused", "ad_started"}
    /\ polls \in 0..QuitPolls
    /\ sent_quit \in BOOLEAN
    /\ paused \in BOOLEAN

\* The step on which stop() returns after having found a process.
StopReturns == ownerPc = "stop_final" /\ ownerPc' = "idle"

\* C1: when stop() returns after a successful start(), the handle is None,
\* the primary process is no longer running and the socket file is gone.
C1_StopLeavesNothing ==
    [][StopReturns =>
        /\ process' = None
        /\ ~Running(process)'
        /\ ~Running(process)
        /\ sockOwner' = None]_vars

\* C1, what the code does give: the handle is cleared and the file removed,
\* and the process has exited unless stop() had to kill it.
C1_StopClearsHandleAndFile ==
    [][StopReturns =>
        /\ process' = None
        /\ sockOwner' = None
        /\ (proc[process] # "exited" => stage = <<"quit", "terminate", "kill">>)]_vars

\* C2: stop() with no handle held raises nothing, sends nothing, signals
\* nothing and leaves the handle and the socket file as they were.
C2_StopWithoutHandleIsNoop ==
    [][(StopBegin /\ process = None) =>
        /\ UNCHANGED <<process, proc, sockOwner, ownerPc, stage, ipc>>
        /\ ~last'.raised]_vars

C2_Witness ==
    /\ last = [op |-> "stop", raised |-> FALSE, why |-> "noop"]
    /\ Spawned # {}
    /\ sockOwner # None

\* C3: a send never raises; it returns false, without connecting, when the
\* socket path is absent, false when connect or the write fails, and true
\* only when the command was written; so every control operation answers
\* false while the socket file is absent.
C3_SendNeverRaises ==
    /\ [](/\ ~ipc.out.raised
          /\ (~ipc.out.exists => ~ipc.out.tried /\ ~ipc.out.ret)
          /\ (ipc.out.ret <=> ipc.out.written)
          /\ (ipc.out.written => ipc.out.tried))
    /\ [][(~SocketExists /\ ipc' # ipc) => ~ipc'.out.exists /\ ~ipc'.out.ret]_vars
    /\ [][(~SocketExists /\ resp' # resp) => ~resp'.success]_vars
    /\ [][(resp' # resp /\ resp'.status = 200) => resp'.success = ipc'.out.ret]_vars

C3_Witness ==
    /\ ipc.op = "seek_backward"
    /\ ~ipc.out.exists
    /\ resp.action = "seek_backward" /\ ~resp.success
    /\ Running(process)

\* C4: a remote volume request outside [0,100] is answered with a failure
\* and sends nothing; no set-volume command leaves with a value outside.
C4_VolumeRangeChecked ==
    /\ [][(resp' # resp /\ resp'.action = "set_volume"
            /\ (resp'.arg < 0 \/ resp'.arg > 100))
          => (~resp'.success /\ resp'.status = 400 /\ ipc' = ipc)]_vars
    /\ [](ipc.cmd.words = <<"set", "volume">> => ipc.cmd.num \in 0..100)

C4_Witness ==
    /\ resp = [action |-> "set_volume", success |-> FALSE, status |-> 400, arg |-> 150, file |-> Absent]
    /\ ListenerOpen
    /\ ipc.cmd.words # <<"set", "volume">>

\* C10: with a process that ignores quit and terminate, stop() leaves the
\* polling loop after at most 15 polls, leaves the wait by its timeout,
\* issues kill, clears the handle, removes the file and returns.
C10_StopTerminates ==
    /\ [](polls <= QuitPolls)
    /\ [][(ownerPc = "stop_wait" /\ ownerPc' # ownerPc /\ proc[process] # "exited")
          => (stage' = <<"quit", "terminate", "kill">> /\ ownerPc' = "stop_final")]_vars
    /\ [][StopReturns => (process' = None /\ sockOwner' = None)]_vars
    /\ (ownerPc # "idle" ~> ownerPc = "idle")

C10_Witness ==
    /\ ownerPc = "stop_final"
    /\ sent_quit /\ polls = QuitPolls
    /\ stage = <<"quit", "terminate", "kill">>
    /\ proc[process] = "killed"

\* C5: once the secondary process has exited, both slots are hidden and then
\* resume is issued: resume is not issued while a slot is still visible.
C5_HiddenBeforeResume ==
    [][\A a \in Sessions :
        (watcher[a] = "hide_requested" /\ watcher'[a] = "done")
        => \A t \in Slots : ~slot[t].visible]_vars

\* C5, what the watcher does do: resume follows the request to hide.
C5_ResumeAfterHideRequest ==
    [][\A a \in Sessions :
        (watcher'[a] = "done" /\ watcher[a] # "done")
        => (watcher[a] = "hide_requested" /\ ads[a] = "exited"
            /\ ipc'.op = "resume" /\ ipc'.cmd = CmdSetPause(FALSE))]_vars

\* C6: play_interruption returns to its caller whether or not the secondary
\* process ever exits; only the watcher thread waits for that exit.
C6_CallerNeverBlocked ==
    /\ (ownerPc = "ad_started" ~> ownerPc = "idle")
    /\ [][(ownerPc = "ad_started" /\ ownerPc' = "idle") => UNCHANGED <<ads, watcher>>]_vars
    /\ [](\A a \in Sessions : ads[a] = "running" => watcher[a] = "waiting")

C6_Witness ==
    /\ ownerPc = "idle"
    /\ uiQueue = <<>>
    /\ \E a \in Sessions : ads[a] = "running" /\ watcher[a] = "waiting"
    /\ ipc.op = "pause"

\* A slot goes from visible to hidden with no queued request being applied.
TimerHides(t) == slot[t].visible /\ ~slot'[t].visible /\ uiQueue' = uiQueue

\* C7: after a show with duration d > 0, and with no later request for the
\* slot, the slot is not hidden before d seconds have passed and is hidden
\* afterwards by the timer alone.
C7_AutoHideAfterDuration ==
    /\ [][\A t \in Slots :
            (TimerHides(t) /\ shown[t].asked > 0) => shown[t].age >= shown[t].asked]_vars
    /\ \A t \in Slots :
            (slot[t].visible /\ shown[t].asked > 0)
                ~> (~slot[t].visible \/ shown[t].asked <= 0)

C7_Witness ==
    /\ ~slot["bottom"].visible
    /\ slot["bottom"].kind = "text" /\ slot["bottom"].marquee
    /\ slot["bottom"].hideMs = Inactive
    /\ shown["bottom"] = [asked |-> 10, age |-> 10]
    /\ lastEnq["bottom"].op = "show"
    /\ budget = MaxRequests - 1

\* C8 as stated: a show with duration absent or zero, text or image, arms no
\* auto-hide deadline.
C8_NoDeadlineWithoutDuration ==
    \A t \in Slots : shown[t].asked \in {NoDuration, 0} => slot[t].hideMs = Inactive

\* C8 amended: a show with duration zero, or a text show with duration
\* absent, arms no deadline and only a request hides the slot; an image show
\* with duration absent arms the default deadline and is hidden by it no
\* sooner than that.
C8_NoDeadlineForTextOrZero ==
    /\ [](\A t \in Slots :
            shown[t].asked \in {NoDuration, 0} =>
                IF slot[t].kind = "image" /\ shown[t].asked = NoDuration
                THEN slot[t].visible => slot[t].hideMs >= 0
                ELSE slot[t].hideMs = Inactive)
    /\ [][\A t \in Slots :
            (TimerHides(t) /\ shown[t].asked \in {NoDuration, 0})
            => (/\ slot[t].kind = "image"
                /\ shown[t].asked = NoDuration
                /\ shown[t].age >= ImageDefaultDuration)]_vars

C8_Witness ==
    /\ slot["bottom"].visible /\ slot["bottom"].kind = "text"
    /\ shown["bottom"].asked = NoDuration /\ slot["bottom"].hideMs = Inactive
    /\ ~slot["side"].visible /\ slot["side"].kind = "image"
    /\ shown["side"] = [asked |-> NoDuration, age |-> AgeCap]
    /\ slot["side"].hideMs = Inactive
    /\ uiQueue = <<>>

\* The slots an event of the queue is about.
EventTargets(e) ==
    IF e.op = "show" THEN ShowTargets(e.position)
    ELSE IF e.op = "hide" THEN HideTargets(e.position)
    ELSE {}
Pending(t) == \E i \in 1..Len(uiQueue) : t \in EventTargets(uiQueue[i])

\* C9: requests for a slot are applied one at a time in the order they were
\* enqueued: when none is waiting, the slot is as the request enqueued last
\* leaves it (hidden after a hide; after a show, of the shown kind and up
\* unless its own deadline has passed), and never half-way between two.
C9_AppliedInEnqueueOrder ==
    /\ [](\A t \in Slots :
            /\ slot[t].marquee => slot[t].kind = "text"
            /\ ~Pending(t) =>
                CASE lastEnq[t].op = "hide" -> ~slot[t].visible
                  [] lastEnq[t].op = "show" ->
                        /\ slot[t].kind = lastEnq[t].kind
                        /\ shown[t].asked = lastEnq[t].duration
                        /\ \/ slot[t].visible
                           \/ /\ BannerDuration(lastEnq[t].kind, lastEnq[t].duration) > 0
                              /\ slot[t].hideMs = Inactive
                  [] OTHER -> slot[t] = Banners0[t])
    /\ [][uiQueue' # uiQueue =>
            \/ (uiQueue # <<>> /\ uiQueue' = Tail(uiQueue))
            \/ (Len(uiQueue') = Len(uiQueue) + 1
                /\ SubSeq(uiQueue', 1, Len(uiQueue)) = uiQueue)]_vars

C9_Witness ==
    /\ uiQueue = <<HideEvent("side"), ShowEvent("side", "image", NoDuration)>>
    /\ lastEnq["side"] = ShowEvent("side", "image", NoDuration)
    /\ ownerPc = "idle"

\* C11: at most one interruption session is in flight: no second secondary
\* process is spawned while an earlier one is still running.
C11_OneSessionInFlight ==
    Cardinality({a \in Sessions : ads[a] = "running"}) <= 1

C15_AcceptedRequestRuns ==
    (resp.action = "play_interrupt_ad" /\ resp.success)
        ~> (last.op = "play_interrupt_ad" /\ last.why = resp.file /\ Started # {})

\* C15, what the posted call does do: it leaves every session, the channel
\* and the slots as they are.
C15_PostedCallDoesNothing ==
    [][(uiQueue # <<>> /\ Head(uiQueue).op = "ad" /\ uiQueue' = Tail(uiQueue))
        => UNCHANGED <<ads, watcher, ipc, slot, last>>]_vars

\* C13: a start() that fails (mpv not found, or the media source is not a
\* directory) raises with nothing changed: no process spawned, the handle
\* as it was, an existing control-socket file still there.
C13_FailedStartChangesNothing ==
    [][(last' # last /\ last'.op = "start" /\ last'.raised)
        => (/\ last'.why \in {"DependencyMissing", "InvalidInput"}
            /\ UNCHANGED <<process, proc, sockOwner, ownerPc, ipc>>)]_vars

C13_Witness ==
    /\ last.op = "start" /\ last.raised /\ last.why = "InvalidInput"
    /\ process # None
    /\ proc[process] = "serving"
    /\ sockOwner = process
    /\ ownerPc = "idle"

\* The manager operation behind each route that answers 200, and the one
\* command each operation is to send, as the interface lists them.
C14_Operation(action) ==
    CASE action = "play" -> "play_pause"
      [] action = "pause" -> "play_pause"
      [] action = "next" -> "next_video"
      [] action = "previous" -> "previous_video"
      [] OTHER -> action
C14_Command(op, n) ==
    CASE op = "play_pause" -> [words |-> <<"cycle", "pause">>, num |-> 0, flag |-> "none"]
      [] op = "next_video" -> [words |-> <<"playlist_next">>, num |-> 0, flag |-> "none"]
      [] op = "previous_video" -> [words |-> <<"playlist_prev">>, num |-> 0, flag |-> "none"]
      [] op = "seek_forward" -> [words |-> <<"seek">>, num |-> n, flag |-> "none"]
      [] op = "seek_backward" -> [words |-> <<"seek">>, num |-> 0 - n, flag |-> "none"]
      [] op = "set_volume" -> [words |-> <<"set", "volume">>, num |-> n, flag |-> "none"]
      [] op = "pause" -> [words |-> <<"set", "pause">>, num |-> 0, flag |-> "true"]
      [] op = "resume" -> [words |-> <<"set", "pause">>, num |-> 0, flag |-> "false"]

\* C14: each control operation makes one send of its one command and
\* returns that send's boolean (a failed send is not tried again), and
\* leaves the process handle, the processes and the slots alone.
C14_OneCommandPerOperation ==
    /\ [][(resp' # resp /\ resp'.status = 200)
          => (/\ ipc'.op = C14_Operation(resp'.action)
              /\ ipc'.cmd = C14_Command(ipc'.op, resp'.arg)
              /\ resp'.success = ipc'.out.ret
              /\ UNCHANGED <<process, proc, sockOwner, ownerPc, stage, slot, shown>>)]_vars
    /\ [][(ipc' # ipc /\ ipc'.op \in {"pause", "resume"})
          => (/\ ipc'.cmd = C14_Command(ipc'.op, 0)
              /\ UNCHANGED <<process, proc, sockOwner, ownerPc, stage, slot, shown,
                             resp>>)]_vars
    /\ [](ipc.out.ret <=> (ipc.out.tried /\ ipc.out.written))

C14_Witness ==
    /\ resp.action = "seek_backward" /\ resp.arg = 5 /\ resp.success
    /\ ipc.op = "seek_backward"
    /\ ipc.cmd.num = 0 - 5
    /\ ipc.out.written
    /\ process # None

\* The owning thread applies the hide request at the head of its queue.
HideApplied == uiQueue # <<>> /\ Head(uiQueue).op = "hide" /\ uiQueue' = Tail(uiQueue)

\* C16: an applied hide with no slot named hides both slots; naming bottom
\* or side it hides that slot and leaves the other slot as it was; it
\* changes nothing but visibility, nothing at all of a slot already hidden,
\* and applying it a second time changes nothing more.
C16_HideOnlyNamedSlot ==
    /\ [][HideApplied =>
            LET pos == Head(uiQueue).position
            IN  /\ pos = Absent => \A t \in Slots : ~slot'[t].visible
                /\ \A t \in Slots :
                      pos = t => (/\ ~slot'[t].visible
                                  /\ \A u \in Slots \ {t} : slot'[u] = slot[u])
                /\ \A t \in Slots :
                      /\ slot'[t] = [slot[t] EXCEPT !.visible = slot'[t].visible]
                      /\ ~slot[t].visible => slot'[t] = slot[t]
                /\ shown' = shown]_vars
    /\ [](\A pos \in Positions :
            on_hide_overlay(on_hide_overlay(slot, pos), pos) = on_hide_overlay(slot, pos))

C16_Witness ==
    /\ ~slot["bottom"].visible
    /\ slot["bottom"].text = "news"
    /\ slot["side"].visible /\ slot["side"].kind = "image"
    /\ lastEnq["bottom"] = HideEvent("bottom")
    /\ uiQueue = <<>>
    /\ budget = MaxRequests - 1

\* C17: once closeEvent's stop() has returned, no external player process
\* spawned here is still running; of the secondary processes in particular,
\* none outlives the teardown.
C17_NoSecondaryOutlivesStop ==
    [][StopReturns => \A a \in Sessions : ads'[a] # "running"]_vars

\* A step of the control-API thread (a route) or of a watcher thread.
NotOwnerStep ==
    \/ ApiPlay \/ ApiPause \/ ApiNext \/ ApiPrevious
    \/ ApiSeekForward \/ ApiSeekBackward \/ ApiVolume
    \/ ApiShowOverlay \/ ApiHideOverlay \/ ApiPlayInterruptAd
    \/ WatcherHide \/ WatcherResume

\* C18: a step of the control-API thread or of a watcher thread leaves the
\* process handle and both slots (visibility, content, timers) as they are:
\* it only sends on the control channel or appends to the owner's queue.
C18_SingleWriter ==
    [][NotOwnerStep =>
        /\ UNCHANGED <<process, slot, shown, ownerPc, sent_quit, polls, stage>>
        /\ \/ uiQueue' = uiQueue
           \/ (Len(uiQueue') = Len(uiQueue) + 1
               /\ SubSeq(uiQueue', 1, Len(uiQueue)) = uiQueue)]_vars

C18_Witness ==
    /\ \E a \in Sessions : watcher[a] = "done" /\ ads[a] = "exited"
    /\ ipc.op = "resume"
    /\ uiQueue = <<HideEvent(Absent)>>
    /\ slot["bottom"].visible
    /\ process # None

\* C19: stop() escalates only in the order quit, terminate, kill: terminate
\* is requested only for a process found still running after the quit
\* stage, kill only after terminate and a wait that timed out on a process
\* still running, and the handle is cleared and the socket file removed
\* only after all of them, as stop()'s last step.
C19_EscalationInOrder ==
    /\ [](stage \in {<<>>, <<"quit">>, <<"quit", "terminate">>,
                     <<"quit", "terminate", "kill">>})
    /\ [][(Len(stage') > Len(stage) /\ stage'[Len(stage')] = "terminate")
          => (/\ stage = <<"quit">>
              /\ ownerPc = "stop_check"
              /\ proc[process] # "exited")]_vars
    /\ [][(Len(stage') > Len(stage) /\ stage'[Len(stage')] = "kill")
          => (/\ stage = <<"quit", "terminate">>
              /\ ownerPc = "stop_wait"
              /\ proc[process] # "exited")]_vars
    /\ [][(ownerPc = "stop_check" /\ proc[process] = "exited") => stage' = stage]_vars
    /\ [][(process # None /\ process' = None)
          => (/\ ownerPc = "stop_final" /\ ownerPc' = "idle"
              /\ stage' = stage
              /\ sockOwner' = None)]_vars
    /\ [](ownerPc \in {"stop_poll", "stop_check", "stop_wait", "stop_final"}
            => process # None)

C19_Witness ==
    /\ ownerPc = "idle"
    /\ process = None
    /\ sockOwner = None
    /\ stage = <<"quit", "terminate", "kill">>
    /\ last = [op |-> "stop", raised |-> FALSE, why |-> "stopped"]

\* C20 as stated: whenever stop() requests termination it has polled the
\* process through the whole quit grace period first.
C20_PollsBeforeTerminate ==
    [][(Len(stage') > Len(stage) /\ stage'[Len(stage')] = "terminate")
        => polls = QuitPolls]_vars

\* C20 amended: stop() with a process first tries to send quit; when the
\* send succeeded it polls until the process has exited or 15 polls are
\* made before it requests termination; when the send failed it does not
\* poll and goes to the termination test at once.
C20_PollsWhenQuitSent ==
    /\ [][(ownerPc = "idle" /\ ownerPc' \in {"stop_poll", "stop_check"})
          => (/\ process # None
              /\ ipc'.op = "stop"
              /\ ipc'.cmd = [words |-> <<"quit">>, num |-> 0, flag |-> "none"]
              /\ sent_quit' = ipc'.out.ret
              /\ polls' = 0
              /\ (ownerPc' = "stop_poll" <=> sent_quit'))]_vars
    /\ [](ownerPc = "stop_poll" => (sent_quit /\ polls < QuitPolls))
    /\ [][(ownerPc = "stop_poll" /\ ownerPc' = "stop_check")
          => (proc[process] = "exited" \/ polls' = QuitPolls)]_vars
    /\ [][(Len(stage') > Len(stage) /\ stage'[Len(stage')] = "terminate")
          => (IF sent_quit THEN polls = QuitPolls ELSE polls = 0)]_vars

C20_Witness ==
    /\ ownerPc = "stop_wait"
    /\ ~sent_quit
    /\ polls = 0
    /\ stage = <<"quit", "terminate">>
    /\ proc[process] = "starting"

\* C21: whenever the lifecycle manager is at rest after start() and stop()
\* calls, at most one primary process is alive, and a primary process that
\* is alive is the one the handle refers to.
C21_AtMostOnePrimary ==
    ownerPc = "idle" =>
        /\ Cardinality({p \in Pids : Running(p)}) <= 1
        /\ \A p \in Pids : Running(p) => process = p

\* The owning thread applies the show request at the head of its queue.
ShowApplied == uiQueue # <<>> /\ Head(uiQueue).op = "show" /\ uiQueue' = Tail(uiQueue)

\* The seconds after which the show last applied to slot t hides it, as
\* the request and its kind give them (0 or less: never).
C23_Deadline(t) ==
    IF slot[t].kind = "image" /\ shown[t].asked = NoDuration THEN 10 ELSE shown[t].asked

\* C23: an applied show replaces the slot's auto-hide deadline by its own
\* (none when it gives none), whatever an earlier show had armed; and a
\* timer hides a slot only when the show applied last armed a deadline and
\* that deadline has passed since.
C23_LaterShowCancelsDeadline ==
    /\ [][ShowApplied =>
            LET e == Head(uiQueue)
                t == IF e.position \in {Absent, "bottom"} THEN "bottom" ELSE "side"
                d == IF e.kind = "image" /\ e.duration = NoDuration THEN 10 ELSE e.duration
            IN  /\ slot'[t].hideMs = IF d > 0 THEN d * 1000 ELSE Inactive
                /\ shown'[t] = [asked |-> e.duration, age |-> 0]]_vars
    /\ [][\A t \in Slots :
            TimerHides(t) => (C23_Deadline(t) > 0 /\ shown[t].age >= C23_Deadline(t))]_vars
    /\ [](\A t \in Slots : C23_Deadline(t) <= 0 => slot[t].hideMs = Inactive)

C23_Witness ==
    /\ slot["side"].visible
    /\ slot["side"].kind = "text"
    /\ slot["side"].image = "x.png"
    /\ slot["side"].hideMs = Inactive
    /\ shown["side"].asked = NoDuration
    /\ budget = 0
    /\ uiQueue = <<>>

\* C25: an applied show changes one slot only, the bottom slot for position
\* bottom or absent and the side slot for any other position, and makes it
\* visible; the other slot keeps visibility, content, size and timers.  An
\* applied hide whose position is neither absent, bottom nor side changes
\* neither slot.
C25_ShowChangesOneSlot ==
    /\ [][ShowApplied =>
            LET e == Head(uiQueue)
                t == IF e.position \in {Absent, "bottom"} THEN "bottom" ELSE "side"
            IN  /\ slot'[t].visible
                /\ slot'[t].kind = e.kind
                /\ \A u \in Slots \ {t} : slot'[u] = slot[u] /\ shown'[u] = shown[u]]_vars
    /\ [][(HideApplied /\ Head(uiQueue).position \notin {Absent, "bottom", "side"})
            => (slot' = slot /\ shown' = shown)]_vars

C25_Witness ==
    /\ slot["side"].visible
    /\ lastEnq["side"].op = "show" /\ lastEnq["side"].position = "top"
    /\ slot["bottom"] = Banners0["bottom"]
    /\ uiQueue = <<>>

\* C22: within a session the pause command is sent before the secondary
\* process is spawned; the session's watcher sends resume only once that
\* session's secondary process has exited, and so never while it runs on.
C22_SessionStepsInOrder ==
    /\ [][(ownerPc # "ad_paused" /\ ownerPc' = "ad_paused")
          => (/\ ipc'.op = "pause"
              /\ ipc'.cmd = [words |-> <<"set", "pause">>, num |-> 0, flag |-> "true"]
              /\ ads' = ads /\ watcher' = watcher)]_vars
    /\ [][\A a \in Sessions :
            (ads[a] = "unborn" /\ ads'[a] # "unborn")
            => (ownerPc = "ad_paused" /\ ads'[a] = "running" /\ ipc' = ipc)]_vars
    /\ [][\A a \in Sessions :
            (watcher[a] # "done" /\ watcher'[a] = "done")
            => (/\ ads[a] = "exited"
                /\ ipc'.op = "resume"
                /\ ipc'.cmd = [words |-> <<"set", "pause">>, num |-> 0, flag |-> "false"])]_vars
    /\ [](\A a \in Sessions : ads[a] = "running" => watcher[a] = "waiting")

C22_Witness ==
    /\ watcher = [a \in Sessions |-> IF a = 1 THEN "done" ELSE "none"]
    /\ ads[1] = "exited"
    /\ ipc.op = "resume" /\ ipc.out.written
    /\ last.op = "play_interrupt_ad"
    /\ ownerPc = "idle"
    /\ uiQueue = <<>>

\* C24: resume is never sent to the primary while a secondary process
\* spawned by play_interrupt_ad is still running.
C24_NoResumeWhileAdRuns ==
    [][(\E a \in Sessions : watcher[a] # "done" /\ watcher'[a] = "done")
        => \A b \in Sessions : ads[b] # "running"]_vars

====
